---- MODULE Spec2Model ----
(***************************************************************************)
(* Model of the vision-to-physics prediction pipeline of the roulette      *)
(* predictor: physics.py (RoulettePhysics) and vision.py (RouletteVision). *)
(*                                                                         *)
(* Python floats are modelled as binary floating-point numbers             *)
(* [m |-> mantissa, e |-> exponent] of value m * 2^e with MantBits         *)
(* significant bits and round-to-nearest-even after every operation, as    *)
(* IEEE-754 doubles do with 53 bits.  Zero is [m |-> 0, e |-> 0]; every    *)
(* other value is normalised, 2^(MantBits-1) <= |m| < 2^MantBits, so that  *)
(* equal values are equal records.  Infinities and NaN are not modelled.   *)
(***************************************************************************)
EXTENDS Integers, Sequences, FiniteSets, TLC

\* precision of the modelled floating-point format (significant bits)
MantBits == 8

RECURSIVE Pow2(_)
Pow2(n) == IF n <= 0 THEN 1 ELSE 2 * Pow2(n - 1)

Abs(n) == IF n < 0 THEN -n ELSE n

Zero == [m |-> 0, e |-> 0]

\* n/d rounded to the nearest integer, ties to even (n >= 0, d > 0)
RoundHalfEven(n, d) ==
    LET f == n \div d
        r == n % d
    IN  IF 2 * r > d \/ (2 * r = d /\ f % 2 = 1) THEN f + 1 ELSE f

\* the float nearest to the positive rational (n / d) * 2^e
RECURSIVE Norm(_, _, _)
Norm(n, d, e) ==
    IF n >= d * Pow2(MantBits) THEN Norm(n, 2 * d, e + 1)
    ELSE IF n < d * Pow2(MantBits - 1) THEN Norm(2 * n, d, e - 1)
    ELSE LET q == RoundHalfEven(n, d)
         IN  IF q = Pow2(MantBits)
             THEN [m |-> Pow2(MantBits - 1), e |-> e + 1]
             ELSE [m |-> q, e |-> e]

\* the float nearest to the rational (n / d) * 2^e, d > 0
Round(n, d, e) ==
    IF n = 0 THEN Zero
    ELSE LET r == Norm(Abs(n), d, e)
         IN  IF n < 0 THEN [m |-> -r.m, e |-> r.e] ELSE r

\* a decimal literal num/den of the source, e.g. 0.05 is Lit(5, 100)
Lit(num, den) == Round(num, den, 0)

\* an int converted to float
FromInt(n) == Round(n, 1, 0)

FNeg(a) == [m |-> -a.m, e |-> a.e]

FAbs(a) == [m |-> Abs(a.m), e |-> a.e]

\* a + b, correctly rounded.  An operand more than MantBits + 2 binary
\* places below the other is less than half an ulp and is absorbed.
FAdd(a, b) ==
    IF a.m = 0 THEN b
    ELSE IF b.m = 0 THEN a
    ELSE IF a.e - b.e > MantBits + 2 THEN a
    ELSE IF b.e - a.e > MantBits + 2 THEN b
    ELSE LET e == IF a.e < b.e THEN a.e ELSE b.e
         IN  Round(a.m * Pow2(a.e - e) + b.m * Pow2(b.e - e), 1, e)

FSub(a, b) == FAdd(a, FNeg(b))

FMul(a, b) == Round(a.m * b.m, 1, a.e + b.e)

\* a / b for b # 0 (a zero divisor raises ZeroDivisionError in the callers)
FDiv(a, b) ==
    IF b.m < 0 THEN Round(-a.m, -b.m, a.e - b.e)
    ELSE Round(a.m, b.m, a.e - b.e)

\* a < b
FLt(a, b) ==
    IF a.m <= 0 /\ b.m >= 0 THEN a.m < b.m
    ELSE IF a.m >= 0 /\ b.m <= 0 THEN FALSE
    ELSE IF a.m > 0 THEN a.e < b.e \/ (a.e = b.e /\ a.m < b.m)
    ELSE a.e > b.e \/ (a.e = b.e /\ a.m < b.m)

FLe(a, b) == ~FLt(b, a)

\* Python's max(a, b): b when b > a, else a
FMax(a, b) == IF FLt(a, b) THEN b ELSE a

\* Python's min(a, b): b when b < a, else a
FMin(a, b) == IF FLt(b, a) THEN b ELSE a

\* Python's int(a): truncation toward zero
Trunc(a) ==
    IF a.e >= 0 THEN a.m * Pow2(a.e)
    ELSE IF a.m >= 0 THEN a.m \div Pow2(-a.e)
    ELSE -((-a.m) \div Pow2(-a.e))

(***************************************************************************)
(* physics.py: RoulettePhysics                                             *)
(***************************************************************************)

gravity == Lit(981, 100)

friction_coefficient == Lit(2, 100)

air_resistance == Lit(1, 1000)

ball_mass == Lit(5, 1000)

pixels_per_meter == 300

\* a layout that holds pocket 0 twice and lacks pocket 26
wheel_numbers_Repeated ==
    << 0, 32, 15, 19, 4, 21, 2, 25, 17, 34, 6, 27, 13, 36, 11, 30, 8, 23, 10, 5,
       24, 16, 33, 1, 20, 14, 31, 9, 22, 18, 29, 7, 28, 12, 35, 3, 0 >>

\* self.wheel_numbers = [...], European roulette numbers in wheel order
wheel_numbers ==
    << 0, 32, 15, 19, 4, 21, 2, 25, 17, 34, 6, 27, 13, 36, 11, 30, 8, 23, 10, 5,
       24, 16, 33, 1, 20, 14, 31, 9, 22, 18, 29, 7, 28, 12, 35, 3, 26 >>

\* math.pi, the float nearest to pi (355/113 agrees with pi to 7 digits)
Pi == Lit(355, 113)

TwoPi == FMul(FromInt(2), Pi)

\* the RouletteState dataclass
RouletteState(angle, radius, angular_vel, radial_vel, wheel_vel, t) ==
    [ball_position |-> <<angle, radius>>,
     ball_velocity |-> <<angular_vel, radial_vel>>,
     wheel_velocity |-> wheel_vel,
     time |-> t]

\* Python's None (a record, so that it can be compared with the records
\* that model floats, positions and states)
None == [none |-> TRUE]

\* the value of a result variable before the operation has been applied
Pending == [pending |-> TRUE]

VARIABLES
    initial_state,    \* simulate_trajectory: the caller's initial state object
    simulation_time,  \* simulate_trajectory: argument
    dt,               \* simulate_trajectory: argument
    states,           \* simulate_trajectory: the list being built
    current_state,    \* simulate_trajectory: local
    pc,               \* simulate_trajectory: "loop", "done" (returned), "raised"
    trajectory,       \* predict_landing_position, get_prediction_confidence: argument
    landing,          \* predict_landing_position: result
    confidence,       \* get_prediction_confidence: result
    wheel_layout,     \* RoulettePhysics.wheel_numbers, the attribute
    positions,        \* calculate_angular_velocity, calculate_radial_velocity: argument
    time_interval,    \* calculate_*_velocity, create_state_from_vision: argument
    angular_velocity, \* calculate_angular_velocity: result
    radial_velocity,  \* calculate_radial_velocity: result
    ball_positions,   \* create_state_from_vision: argument
    wheel_angular_velocity, \* create_state_from_vision: argument
    vision_state,     \* create_state_from_vision: result
    wheel_center,     \* RouletteVision.wheel_center
    wheel_radius,     \* RouletteVision.wheel_radius
    last_ball_position, \* RouletteVision.last_ball_position
    ball_history,     \* RouletteVision.ball_history
    op,               \* the detector method called last
    ret,              \* what that call returned
    calls,            \* number of detector calls made
    frames,           \* the frames of a recorded session still to be analysed
    frame_in          \* the frame passed to the detector call made last

simVars == <<initial_state, simulation_time, dt, states, current_state, pc>>

predVars == <<trajectory, landing, confidence, wheel_layout>>

kinVars == <<positions, time_interval, angular_velocity, radial_velocity,
             ball_positions, wheel_angular_velocity, vision_state>>

detVars == <<wheel_center, wheel_radius, last_ball_position, ball_history>>

callVars == <<op, ret, calls, frames, frame_in>>

vars == <<simVars, predVars, kinVars, detVars, callVars>>

\* the parts of the state a specification does not use
SimIdle ==
    /\ initial_state = None
    /\ simulation_time = None
    /\ dt = None
    /\ states = <<>>
    /\ current_state = None
    /\ pc = "idle"

PredIdle ==
    /\ trajectory = <<>>
    /\ landing = Pending
    /\ confidence = Pending
    /\ wheel_layout = wheel_numbers

KinIdle ==
    /\ positions = <<>>
    /\ time_interval = None
    /\ angular_velocity = Pending
    /\ radial_velocity = Pending
    /\ ball_positions = <<>>
    /\ wheel_angular_velocity = None
    /\ vision_state = Pending

\* RouletteVision.__init__
VisionInit ==
    /\ wheel_center = None
    /\ wheel_radius = None
    /\ last_ball_position = None
    /\ ball_history = <<>>

CallIdle ==
    /\ op = "init"
    /\ ret = None
    /\ calls = 0
    /\ frames = <<>>
    /\ frame_in = None

\* while new_angle > math.pi: new_angle -= 2 * math.pi
RECURSIVE WrapAbovePi(_)
WrapAbovePi(a) == IF FLt(Pi, a) THEN WrapAbovePi(FSub(a, TwoPi)) ELSE a

\* while new_angle < -math.pi: new_angle += 2 * math.pi
RECURSIVE WrapBelowMinusPi(_)
WrapBelowMinusPi(a) ==
    IF FLt(a, FNeg(Pi)) THEN WrapBelowMinusPi(FAdd(a, TwoPi)) ELSE a

NormalizeAngle(a) == WrapBelowMinusPi(WrapAbovePi(a))

friction_force == FMul(FMul(friction_coefficient, ball_mass), gravity)

\* -friction_force / (self.ball_mass * radius), the friction term of
\* angular_acceleration
FrictionAcceleration(radius) == FDiv(FNeg(friction_force), FMul(ball_mass, radius))

AngularAcceleration(angular_vel, radius) ==
    LET air_resistance_angular ==
            FMul(FMul(air_resistance, angular_vel), FAbs(angular_vel))
    IN  FSub(FrictionAcceleration(radius),
             FDiv(air_resistance_angular, ball_mass))

RadialAcceleration(angular_vel, radial_vel, radius) ==
    LET centrifugal_force ==
            FMul(FMul(FMul(ball_mass, angular_vel), angular_vel), radius)
        air_resistance_radial ==
            FMul(FMul(air_resistance, radial_vel), FAbs(radial_vel))
        gravity_radial == FMul(Lit(-1, 10), gravity)
    IN  FAdd(FSub(FDiv(centrifugal_force, ball_mass),
                  FDiv(air_resistance_radial, ball_mass)),
             gravity_radial)

\* NewRadius without the floor
NewRadius_NoFloor(radius, new_radial_vel, step) ==
    FAdd(radius, FMul(new_radial_vel, step))

NewRadius(radius, new_radial_vel, step) ==
    FMax(Lit(5, 100), FAdd(radius, FMul(new_radial_vel, step)))

wheel_deceleration == Lit(1, 100)

\* NewWheelVel without the floor
NewWheelVel_NoFloor(wheel_vel, step) ==
    FSub(wheel_vel, FMul(wheel_deceleration, step))

NewWheelVel(wheel_vel, step) ==
    FMax(Zero, FSub(wheel_vel, FMul(wheel_deceleration, step)))

\* one pass through the body of the while loop: the state it appends
NewState(cur, step) ==
    LET angle == cur.ball_position[1]
        radius == cur.ball_position[2]
        angular_vel == cur.ball_velocity[1]
        radial_vel == cur.ball_velocity[2]
        new_angular_vel ==
            FAdd(angular_vel, FMul(AngularAcceleration(angular_vel, radius), step))
        new_radial_vel ==
            FAdd(radial_vel,
                 FMul(RadialAcceleration(angular_vel, radial_vel, radius), step))
        new_angle == NormalizeAngle(FAdd(angle, FMul(new_angular_vel, step)))
    IN  RouletteState(new_angle, NewRadius(radius, new_radial_vel, step),
                      new_angular_vel, new_radial_vel,
                      NewWheelVel(cur.wheel_velocity, step),
                      FAdd(cur.time, step))

\* if abs(new_angular_vel) < 0.1 and abs(new_radial_vel) < 0.01: break
Settled(s) ==
    /\ FLt(FAbs(s.ball_velocity[1]), Lit(1, 10))
    /\ FLt(FAbs(s.ball_velocity[2]), Lit(1, 100))

\* while current_state.time < initial_state.time + simulation_time
LoopCondition ==
    FLt(current_state.time, FAdd(initial_state.time, simulation_time))

\* bound on the length of a trajectory
MaxStates == 36

\* the inputs the simulation is run on
SimAngles == {Zero, Lit(3, 1)}
SimRadii == {Zero, Lit(3, 100), Lit(25, 100)}
SimAngularVels == {Lit(-2, 1), Lit(5, 100), Lit(1, 10), Lit(2, 1)}
SimRadialVels == {Zero, Lit(1, 10)}
SimWheelVels == {Lit(-1, 1), Zero, Lit(1, 1000), Lit(2, 1)}
SimTimes == {Zero, Lit(1, 1)}
SimDurations == {Zero, Lit(1, 10), Lit(3, 10)}
SimSteps == {Lit(1, 100), Lit(1, 10)}

\* SimInit with the initial state left out of the list
SimInit_EmptyStates ==
    /\ initial_state \in
         {RouletteState(a, r, av, rv, w, t) :
            a \in SimAngles, r \in SimRadii, av \in SimAngularVels,
            rv \in SimRadialVels, w \in SimWheelVels, t \in SimTimes}
    /\ simulation_time \in SimDurations
    /\ dt \in SimSteps
    /\ states = <<>>
    /\ current_state = initial_state
    /\ pc = "loop"
    /\ PredIdle /\ KinIdle /\ VisionInit /\ CallIdle

SimInit ==
    /\ initial_state \in
         {RouletteState(a, r, av, rv, w, t) :
            a \in SimAngles, r \in SimRadii, av \in SimAngularVels,
            rv \in SimRadialVels, w \in SimWheelVels, t \in SimTimes}
    /\ simulation_time \in SimDurations
    /\ dt \in SimSteps
    /\ states = <<initial_state>>
    /\ current_state = initial_state
    /\ pc = "loop"
    /\ PredIdle /\ KinIdle /\ VisionInit /\ CallIdle

\* one iteration of the while loop
SimStep ==
    /\ pc = "loop"
    /\ LoopCondition
    /\ FMul(ball_mass, current_state.ball_position[2]) # Zero
    /\ Len(states) < MaxStates
    /\ LET new_state == NewState(current_state, dt)
       IN  /\ states' = Append(states, new_state)
           /\ current_state' = new_state
           /\ pc' = IF Settled(new_state) THEN "done" ELSE "loop"
    /\ UNCHANGED <<initial_state, simulation_time, dt>>
    /\ UNCHANGED <<predVars, kinVars, detVars, callVars>>

\* the division by ball_mass * radius raises ZeroDivisionError
SimRaise ==
    /\ pc = "loop"
    /\ LoopCondition
    /\ FMul(ball_mass, current_state.ball_position[2]) = Zero
    /\ pc' = "raised"
    /\ UNCHANGED <<initial_state, simulation_time, dt, states, current_state>>
    /\ UNCHANGED <<predVars, kinVars, detVars, callVars>>

\* the loop condition fails: return states
SimReturn ==
    /\ pc = "loop"
    /\ ~LoopCondition
    /\ pc' = "done"
    /\ UNCHANGED <<initial_state, simulation_time, dt, states, current_state>>
    /\ UNCHANGED <<predVars, kinVars, detVars, callVars>>

SimNext == SimStep \/ SimRaise \/ SimReturn

SpecSim == SimInit /\ [][SimNext]_vars

\* simulate_trajectory called with any dt: negative, zero or positive
LoopSteps == {Lit(-1, 100), Zero, Lit(1, 10)}

LoopInit ==
    /\ initial_state \in
         {RouletteState(Zero, r, av, Zero, FromInt(2), Zero) :
            r \in {Zero, Lit(25, 100)},
            av \in {Lit(-2, 1), Lit(5, 100), Lit(2, 1)}}
    /\ simulation_time \in {Zero, Lit(3, 10)}
    /\ dt \in LoopSteps
    /\ states = <<initial_state>>
    /\ current_state = initial_state
    /\ pc = "loop"
    /\ PredIdle /\ KinIdle /\ VisionInit /\ CallIdle

SpecLoop == LoopInit /\ [][SimNext]_vars

(***************************************************************************)
(* predict_landing_position and get_prediction_confidence                  *)
(***************************************************************************)

\* Python's list[i]: negative indices count from the end
ListGet(list, i) ==
    IF 0 <= i /\ i < Len(list) THEN list[i + 1]
    ELSE IF -Len(list) <= i /\ i < 0 THEN list[Len(list) + i + 1]
    ELSE "IndexError"

\* WrapBelowZero with an if in place of the while
WrapBelowZero_Once(a) == IF FLt(a, Zero) THEN FAdd(a, TwoPi) ELSE a

\* while relative_angle < 0: relative_angle += 2 * math.pi
RECURSIVE WrapBelowZero(_)
WrapBelowZero(a) == IF FLt(a, Zero) THEN WrapBelowZero(FAdd(a, TwoPi)) ELSE a

\* while relative_angle >= 2 * math.pi: relative_angle -= 2 * math.pi
RECURSIVE WrapFromTwoPi(_)
WrapFromTwoPi(a) == IF FLe(TwoPi, a) THEN WrapFromTwoPi(FSub(a, TwoPi)) ELSE a

segment_angle == FDiv(TwoPi, FromInt(37))

\* int(relative_angle / segment_angle) % 37
SegmentIndex(relative_angle) == Trunc(FDiv(relative_angle, segment_angle)) % 37

\* the time of the final state taken for the time travelled
TimeTraveled_SinceZero(traj) == traj[Len(traj)].time

\* time_traveled = final_state.time - trajectory[0].time
TimeTraveled(traj) == FSub(traj[Len(traj)].time, traj[1].time)

\* a default that marks the missing prediction with the number -1
EmptyLanding_NoNumber ==
    [relative_angle |-> Zero, predicted_number |-> -1, segment_index |-> None]

\* if not trajectory: return 0.0, 0
EmptyLanding ==
    [relative_angle |-> Zero, predicted_number |-> 0, segment_index |-> None]

\* predict_landing_position with the wheel velocity of the final state
predict_landing_position_FinalWheel(traj) ==
    IF traj = <<>>
    THEN EmptyLanding
    ELSE LET final_state == traj[Len(traj)]
             final_angle == final_state.ball_position[1]
             time_traveled == TimeTraveled(traj)
             wheel_rotation == FMul(final_state.wheel_velocity, time_traveled)
             relative_angle ==
                 WrapFromTwoPi(WrapBelowZero(FSub(final_angle, wheel_rotation)))
             segment_index == SegmentIndex(relative_angle)
         IN  [relative_angle |-> relative_angle,
              predicted_number |-> ListGet(wheel_layout, segment_index),
              segment_index |-> segment_index]

\* predict_landing_position(trajectory); segment_index is the local variable
predict_landing_position(traj) ==
    IF traj = <<>>
    THEN EmptyLanding
    ELSE LET final_state == traj[Len(traj)]
             final_angle == final_state.ball_position[1]
             time_traveled == TimeTraveled(traj)
             wheel_rotation == FMul(traj[1].wheel_velocity, time_traveled)
             relative_angle ==
                 WrapFromTwoPi(WrapBelowZero(FSub(final_angle, wheel_rotation)))
             segment_index == SegmentIndex(relative_angle)
         IN  [relative_angle |-> relative_angle,
              predicted_number |-> ListGet(wheel_layout, segment_index),
              segment_index |-> segment_index]

\* numpy's sum of a 10-element array: eight partial sums added pairwise,
\* then the remaining two elements
Sum10(x) ==
    FAdd(FAdd(FAdd(FAdd(FAdd(x[1], x[2]), FAdd(x[3], x[4])),
                   FAdd(FAdd(x[5], x[6]), FAdd(x[7], x[8]))),
              x[9]),
         x[10])

\* np.var of 10 values: the mean of the squared deviations from the mean
Var10(x) ==
    LET mean == FDiv(Sum10(x), FromInt(10))
        sq == [i \in 1..10 |-> FMul(FSub(x[i], mean), FSub(x[i], mean))]
    IN  FDiv(Sum10(sq), FromInt(10))

\* get_prediction_confidence taking the last 10 states instead of the first 10
get_prediction_confidence_Last10(traj) ==
    IF Len(traj) < 10 THEN Lit(1, 10)
    ELSE LET angular_velocities ==
                 [i \in 1..10 |-> traj[Len(traj) - 10 + i].ball_velocity[1]]
             velocity_variance == Var10(angular_velocities)
         IN  FMax(Lit(1, 10),
                  FMin(FromInt(1),
                       FSub(FromInt(1), FDiv(velocity_variance, FromInt(10)))))

\* get_prediction_confidence(trajectory)
get_prediction_confidence(traj) ==
    IF Len(traj) < 10 THEN Lit(1, 10)
    ELSE LET angular_velocities == [i \in 1..10 |-> traj[i].ball_velocity[1]]
             velocity_variance == Var10(angular_velocities)
         IN  FMax(Lit(1, 10),
                  FMin(FromInt(1),
                       FSub(FromInt(1), FDiv(velocity_variance, FromInt(10)))))

\* all sequences over S of length at most n
SeqsUpTo(S, n) == UNION {[1..k -> S] : k \in 0..n}

\* bound on the length of the trajectories given to predict_landing_position
MaxLandingLen == 2

LandingStates ==
    {RouletteState(a, r, FromInt(2), Zero, w, t) :
        a \in {Lit(-3, 1), Zero, Lit(3, 1)},
        r \in {Lit(5, 100), Lit(25, 100)},
        w \in {Lit(-1, 1), Zero, Lit(5, 1)},
        t \in {Zero, Lit(1, 1)}}

\* trajectories with a state between the first and the last
LandingPaths ==
    LET ends == {s \in LandingStates :
                    s.ball_position[1] # Zero /\ s.ball_position[2] = Lit(25, 100)}
    IN  {<<first, between, last>> :
            first \in ends, between \in LandingStates, last \in ends}

LandingInit ==
    /\ trajectory \in SeqsUpTo(LandingStates, MaxLandingLen) \cup LandingPaths
    /\ landing = Pending
    /\ confidence = Pending
    /\ wheel_layout = wheel_numbers
    /\ SimIdle /\ KinIdle /\ VisionInit /\ CallIdle

PredictLanding ==
    /\ landing = Pending
    /\ landing' = predict_landing_position(trajectory)
    /\ UNCHANGED <<trajectory, confidence, wheel_layout>>
    /\ UNCHANGED <<simVars, kinVars, detVars, callVars>>

SpecLanding == LandingInit /\ [][PredictLanding]_vars

\* bound on the length of the trajectories given to get_prediction_confidence
MaxConfidenceLen == 11

ConfidenceStates ==
    {RouletteState(Zero, Lit(25, 100), av, Zero, Zero, Zero) :
        av \in {Lit(-4, 1), Lit(4, 1)}}

ConfidenceInit ==
    /\ trajectory \in SeqsUpTo(ConfidenceStates, MaxConfidenceLen)
    /\ landing = Pending
    /\ confidence = Pending
    /\ wheel_layout = wheel_numbers
    /\ SimIdle /\ KinIdle /\ VisionInit /\ CallIdle

GetConfidence ==
    /\ confidence = Pending
    /\ confidence' = get_prediction_confidence(trajectory)
    /\ UNCHANGED <<trajectory, landing, wheel_layout>>
    /\ UNCHANGED <<simVars, kinVars, detVars, callVars>>

SpecConfidence == ConfidenceInit /\ [][GetConfidence]_vars

(***************************************************************************)
(* Kinematics: pixel_coords_to_polar, calculate_angular_velocity,          *)
(* calculate_radial_velocity, create_state_from_vision                     *)
(***************************************************************************)

\* the largest r with r * r <= n, found bit by bit from the bit b down
\* (x * x <= n is tested as x <= n \div x)
RECURSIVE ISqrtBits(_, _, _)
ISqrtBits(n, r, b) ==
    IF b = 0 THEN r
    ELSE ISqrtBits(n, IF r + b <= n \div (r + b) THEN r + b ELSE r, b \div 2)

ISqrt(n) == ISqrtBits(n, 0, Pow2(15))

\* sqrt(n) rounded to a multiple of s, ties to even, where r = ISqrt(n):
\* the halfway point h between q * s and (q + 1) * s is compared with sqrt(n)
SqrtToMultiple(n, r, s) ==
    LET q == r \div s
        up == IF s = 1 THEN n > r * r + r
              ELSE LET h == (2 * q + 1) * (s \div 2)
                   IN  h < n \div h \/ (h * h = n /\ q % 2 = 1)
                       \/ (h = n \div h /\ h * h < n)
    IN  IF up THEN (q + 1) * s ELSE q * s

\* the least power of 2, s, with r < 2^MantBits * s
RECURSIVE Spacing(_, _)
Spacing(r, s) == IF r < Pow2(MantBits) * s THEN s ELSE Spacing(r, 2 * s)

\* the float nearest to sqrt(n) * 2^e for an integer n >= 1: n is scaled by
\* powers of 4 until its integer square root has at least MantBits bits
RECURSIVE SqrtScaled(_, _)
SqrtScaled(n, e) ==
    IF n < Pow2(2 * MantBits - 2) THEN SqrtScaled(4 * n, e - 1)
    ELSE LET r == ISqrt(n)
         IN  Round(SqrtToMultiple(n, r, Spacing(r, 1)), 1, e)

\* math.sqrt of a non-negative integer
FSqrt(n) == IF n = 0 THEN Zero ELSE SqrtScaled(n, 0)

\* half of a float
Half(a) == IF a.m = 0 THEN a ELSE [m |-> a.m, e |-> a.e - 1]

\* math.atan2(dy, dx) for integer offsets on the axes and the diagonals,
\* the directions of the pixel positions the model uses
Atan2(dy, dx) ==
    IF dy = 0 THEN (IF dx >= 0 THEN Zero ELSE Pi)
    ELSE IF dx = 0 THEN (IF dy > 0 THEN Half(Pi) ELSE FNeg(Half(Pi)))
    ELSE LET quarter == IF dx > 0 THEN Half(Half(Pi)) ELSE Lit(3 * 355, 4 * 113)
         IN  IF dy > 0 THEN quarter ELSE FNeg(quarter)

\* pixel_coords_to_polar(x, y, center): positions are records [x, y]
pixel_coords_to_polar(pos, center) ==
    LET dx == pos.x - center.x
        dy == pos.y - center.y
    IN  <<Atan2(dy, dx), FDiv(FSqrt(dx * dx + dy * dy), FromInt(pixels_per_meter))>>

\* AngleDiff without the wraparound correction
AngleDiff_NoWrap(from, to) == FSub(to, from)

\* one angle difference with the wraparound handled at +-pi
AngleDiff(from, to) ==
    LET angle_diff == FSub(to, from)
    IN  IF FLt(Pi, angle_diff) THEN FSub(angle_diff, TwoPi)
        ELSE IF FLt(angle_diff, FNeg(Pi)) THEN FAdd(angle_diff, TwoPi)
        ELSE angle_diff

\* angle_diffs of calculate_angular_velocity
AngleDiffs(pos) == [i \in 1..(Len(pos) - 1) |-> AngleDiff(pos[i][1], pos[i + 1][1])]

\* the radius differences taken from the first position, not the previous
RadiusDiffs_FromFirst(pos) == [i \in 1..(Len(pos) - 1) |-> FSub(pos[i + 1][2], pos[1][2])]

\* radius_diffs of calculate_radial_velocity
RadiusDiffs(pos) == [i \in 1..(Len(pos) - 1) |-> FSub(pos[i + 1][2], pos[i][2])]

\* Python's sum(list): 0 + list[0] + list[1] + ...
RECURSIVE FSum(_)
FSum(list) ==
    IF list = <<>> THEN Zero
    ELSE FAdd(FSum(SubSeq(list, 1, Len(list) - 1)), list[Len(list)])

\* the value of a call that raised ZeroDivisionError
ZeroDivisionError == [raised |-> "ZeroDivisionError"]

\* sum(diffs) / (len(diffs) * time_interval)
Average(diffs, interval) ==
    LET divisor == FMul(FromInt(Len(diffs)), interval)
    IN  IF divisor = Zero THEN ZeroDivisionError ELSE FDiv(FSum(diffs), divisor)

calculate_angular_velocity(pos, interval) ==
    IF Len(pos) < 2 THEN None ELSE Average(AngleDiffs(pos), interval)

calculate_radial_velocity(pos, interval) ==
    IF Len(pos) < 2 THEN None ELSE Average(RadiusDiffs(pos), interval)

\* create_state_from_vision packaging the oldest position instead of the latest
create_state_from_vision_Oldest(pixels, center, interval, wheel_vel) ==
    IF Len(pixels) < 2 THEN None
    ELSE LET polar_positions ==
                 [i \in 1..Len(pixels) |-> pixel_coords_to_polar(pixels[i], center)]
             angular_vel == calculate_angular_velocity(polar_positions, interval)
             radial_vel == calculate_radial_velocity(polar_positions, interval)
         IN  IF angular_vel = ZeroDivisionError THEN ZeroDivisionError
             ELSE IF angular_vel = None \/ radial_vel = None THEN None
             ELSE RouletteState(polar_positions[1][1], polar_positions[1][2],
                                angular_vel, radial_vel, wheel_vel, Zero)

create_state_from_vision(pixels, center, interval, wheel_vel) ==
    IF Len(pixels) < 2 THEN None
    ELSE LET polar_positions ==
                 [i \in 1..Len(pixels) |-> pixel_coords_to_polar(pixels[i], center)]
             angular_vel == calculate_angular_velocity(polar_positions, interval)
             radial_vel == calculate_radial_velocity(polar_positions, interval)
         IN  IF angular_vel = ZeroDivisionError THEN ZeroDivisionError
             ELSE IF angular_vel = None \/ radial_vel = None THEN None
             ELSE RouletteState(polar_positions[Len(pixels)][1],
                                polar_positions[Len(pixels)][2],
                                angular_vel, radial_vel, wheel_vel, Zero)

\* bound on the number of positions given to the velocity calculations
MaxPositions == 3

PolarPositions ==
    {<<a, r>> : a \in {FNeg(Pi), Lit(-3, 1), Zero, Lit(3, 1), Pi},
                r \in {Lit(5, 100), Lit(1, 10), Lit(25, 100)}}

VelocityInit ==
    /\ positions \in SeqsUpTo(PolarPositions, MaxPositions)
    /\ time_interval \in {Lit(1, 10), FromInt(1)}
    /\ angular_velocity = Pending
    /\ radial_velocity = Pending
    /\ ball_positions = <<>>
    /\ wheel_angular_velocity = None
    /\ vision_state = Pending
    /\ SimIdle /\ PredIdle /\ VisionInit /\ CallIdle

CalcAngularVelocity ==
    /\ angular_velocity = Pending
    /\ angular_velocity' = calculate_angular_velocity(positions, time_interval)
    /\ UNCHANGED <<positions, time_interval, radial_velocity, ball_positions,
                   wheel_angular_velocity, vision_state>>
    /\ UNCHANGED <<simVars, predVars, detVars, callVars>>

CalcRadialVelocity ==
    /\ radial_velocity = Pending
    /\ radial_velocity' = calculate_radial_velocity(positions, time_interval)
    /\ UNCHANGED <<positions, time_interval, angular_velocity, ball_positions,
                   wheel_angular_velocity, vision_state>>
    /\ UNCHANGED <<simVars, predVars, detVars, callVars>>

SpecVelocity == VelocityInit /\ [][CalcAngularVelocity \/ CalcRadialVelocity]_vars

\* the wheel centre given to create_state_from_vision
StateCenter == [x |-> 100, y |-> 100]

PixelPositions ==
    {[x |-> 100, y |-> 100], [x |-> 130, y |-> 100], [x |-> 160, y |-> 100],
     [x |-> 100, y |-> 130], [x |-> 70, y |-> 100], [x |-> 100, y |-> 70],
     [x |-> 130, y |-> 130]}

\* the default of the wheel_angular_velocity parameter
DefaultWheelVelocity == Lit(5, 1)

StateInit ==
    /\ ball_positions \in SeqsUpTo(PixelPositions, MaxPositions)
    /\ time_interval \in {Zero, Lit(1, 10), Lit(5, 10)}
    /\ wheel_angular_velocity \in {DefaultWheelVelocity, Lit(2, 1)}
    /\ vision_state = Pending
    /\ positions = <<>>
    /\ angular_velocity = Pending
    /\ radial_velocity = Pending
    /\ SimIdle /\ PredIdle /\ VisionInit /\ CallIdle

CreateState ==
    /\ vision_state = Pending
    /\ vision_state' = create_state_from_vision(ball_positions, StateCenter,
                                                time_interval, wheel_angular_velocity)
    /\ UNCHANGED <<positions, time_interval, angular_velocity, radial_velocity,
                   ball_positions, wheel_angular_velocity>>
    /\ UNCHANGED <<simVars, predVars, detVars, callVars>>

SpecState == StateInit /\ [][CreateState]_vars

(***************************************************************************)
(* vision.py: RouletteVision                                               *)
(*                                                                         *)
(* A frame is modelled by what OpenCV extracts from it:                    *)
(*   height, width  frame.shape                                            *)
(*   hough          for each of the 4 detection configurations, whether    *)
(*                  cv2.HoughCircles raised and the circles it returned    *)
(*                  (rounded to int), each with the image measurements     *)
(*                  _score_wheel_candidate takes around it                 *)
(*   blobs          the connected bright regions of combined_mask after    *)
(*                  the morphological clean-up, in contour order, each     *)
(*                  with the measurements of its contour.  A blob is small *)
(*                  against the ball track: the wheel mask keeps or        *)
(*                  removes it as a whole, by its centroid pixel.          *)
(* Positions are records [x, y]; wheel_radius is None or a boxed integer   *)
(* [px |-> r], the numpy scalar.                                           *)
(***************************************************************************)

\* detection_configs: minRadius, and the divisor of min(frame.shape[:2]) that
\* gives maxRadius
detection_configs ==
    <<[minRadius |-> 50, maxRadiusDivisor |-> 2],
      [minRadius |-> 40, maxRadiusDivisor |-> 2],
      [minRadius |-> 60, maxRadiusDivisor |-> 3],
      [minRadius |-> 30, maxRadiusDivisor |-> 2]>>

\* number of entries of detection_configs
NumConfigs == 4

\* cv2.HoughCircles returns circles of a radius between minRadius and
\* maxRadius only
HoughContract(frame) ==
    \A k \in 1..NumConfigs :
        \A i \in 1..Len(frame.hough[k].circles) :
            LET r == frame.hough[k].circles[i].r
                smaller == IF frame.height < frame.width THEN frame.height
                                                        ELSE frame.width
            IN  /\ detection_configs[k].minRadius <= r
                /\ r <= smaller \div detection_configs[k].maxRadiusDivisor

\* the cap on len(ball_history)
HistoryCap == 15

Box(n) == [px |-> n]

\* size_score = 1.0 - abs(r - 100) / 200
SizeScore(r) == FSub(FromInt(1), FDiv(FromInt(Abs(r - 100)), FromInt(200)))

\* _score_wheel_candidate(frame, x, y, r), from the measurements of the
\* region around the circle: edge_density, green_ratio and the result of
\* _check_radial_patterns
ScoreWheelCandidate(c) ==
    FAdd(FAdd(FAdd(FAdd(Zero, FMin(FMul(c.edge_density, FromInt(1000)), Lit(3, 10))),
                   FMin(FMul(c.green_ratio, FromInt(2)), Lit(3, 10))),
              FMul(c.radial_score, Lit(2, 10))),
         FMul(FMax(Zero, SizeScore(c.r)), Lit(2, 10)))

\* the validation with > in place of >=
InFrame_UpToEdge(frame, c) ==
    ~(c.x - c.r < 0 \/ c.y - c.r < 0
      \/ c.x + c.r > frame.width \/ c.y + c.r > frame.height)

\* the validation of a circle against the frame bounds
InFrame(frame, c) ==
    ~(c.x - c.r < 0 \/ c.y - c.r < 0
      \/ c.x + c.r >= frame.width \/ c.y + c.r >= frame.height)

\* the update of the best circle with >= in place of >
Better_LastAmongEqual(best, c, score, in_frame) ==
    IF in_frame /\ FLe(best.max_score, score)
    THEN [best_circle |-> c, max_score |-> score]
    ELSE best

\* if score > max_score: the circle becomes the best; a circle that leaves
\* the frame is skipped
Better(best, c, score, in_frame) ==
    IF in_frame /\ FLt(best.max_score, score)
    THEN [best_circle |-> c, max_score |-> score]
    ELSE best

\* for circle in circles: ... from circle number i on; best is the pair
\* (best_circle, max_score)
RECURSIVE ScanCircles(_, _, _, _)
ScanCircles(frame, circles, i, best) ==
    IF i > Len(circles) THEN best
    ELSE ScanCircles(frame, circles, i + 1,
                     Better(best, circles[i], ScoreWheelCandidate(circles[i]),
                            InFrame(frame, circles[i])))

\* for config in detection_configs: ... from configuration number k on; a
\* configuration whose HoughCircles call raises is skipped
RECURSIVE ScanConfigs(_, _, _)
ScanConfigs(frame, k, best) ==
    IF k > NumConfigs THEN best
    ELSE IF frame.hough[k].raised THEN ScanConfigs(frame, k + 1, best)
    ELSE ScanConfigs(frame, k + 1, ScanCircles(frame, frame.hough[k].circles, 1, best))

\* the return value (None, None)
NoWheel == [center |-> None, radius |-> None]

\* if best_circle and max_score > 0.3: the circle is the wheel
WheelOf(best) ==
    IF best.best_circle # None /\ FLt(Lit(3, 10), best.max_score)
    THEN [center |-> [x |-> best.best_circle.x, y |-> best.best_circle.y],
          radius |-> Box(best.best_circle.r)]
    ELSE NoWheel

\* the value detect_wheel(frame) returns
detect_wheel(frame) ==
    WheelOf(ScanConfigs(frame, 1, [best_circle |-> None, max_score |-> Zero]))

\* the square of the distance between two pixels
SquaredDistance(a, b) == (a.x - b.x) * (a.x - b.x) + (a.y - b.y) * (a.y - b.y)

\* math.sqrt((a.x - b.x)**2 + (a.y - b.y)**2)
Distance(a, b) == FSqrt(SquaredDistance(a, b))

\* a pixel at squared distance d2 from the centre is in the disc of the outer
\* radius and not in the disc of the inner radius
InAnnulus(d2, inner_radius, outer_radius) ==
    d2 <= outer_radius * outer_radius /\ ~(d2 <= inner_radius * inner_radius)

\* the wheel mask at a pixel: the disc of radius int(wheel_radius * 0.95)
\* filled with 255, then the disc of radius int(wheel_radius * 0.3) with 0
WheelMaskKeeps(pos, center, radius) ==
    InAnnulus(SquaredDistance(pos, center),
              Trunc(FMul(FromInt(radius.px), Lit(3, 10))),
              Trunc(FMul(FromInt(radius.px), Lit(95, 100))))

\* the contours found in combined_mask: with a wheel radius, the blobs the
\* wheel mask keeps
Contours(frame, center, radius) ==
    IF radius.px # 0
    THEN SelectSeq(frame.blobs, LAMBDA b : WheelMaskKeeps([x |-> b.cx, y |-> b.cy],
                                                           center, radius))
    ELSE frame.blobs

Circularity(b) ==
    FDiv(FMul(FMul(FromInt(4), Pi), b.area), FMul(b.perimeter, b.perimeter))

\* wheel_radius * 0.2 < dist_from_center < wheel_radius * 0.95
OnTrack(dist_from_center, radius) ==
    /\ FLt(FMul(FromInt(radius.px), Lit(2, 10)), dist_from_center)
    /\ FLt(dist_from_center, FMul(FromInt(radius.px), Lit(95, 100)))

\* the tests a contour passes to become a candidate
IsCandidate(b, center, radius) ==
    /\ FLt(FromInt(5), b.area) /\ FLt(b.area, FromInt(500))
    /\ FLt(Zero, b.perimeter)
    /\ FLt(Lit(3, 10), Circularity(b))
    /\ b.m00 # Zero
    /\ OnTrack(Distance([x |-> b.cx, y |-> b.cy], center), radius)

\* the tuple appended to candidates
Candidate(b, center) ==
    [cx |-> b.cx, cy |-> b.cy, area |-> b.area, circularity |-> Circularity(b),
     brightness |-> b.brightness,
     dist |-> Distance([x |-> b.cx, y |-> b.cy], center)]

RECURSIVE CandidatesFrom(_, _, _, _)
CandidatesFrom(contours, i, center, radius) ==
    IF i > Len(contours) THEN <<>>
    ELSE IF IsCandidate(contours[i], center, radius)
    THEN <<Candidate(contours[i], center)>> \o CandidatesFrom(contours, i + 1, center, radius)
    ELSE CandidatesFrom(contours, i + 1, center, radius)

\* the list candidates of detect_ball
Candidates(frame, center, radius) ==
    CandidatesFrom(Contours(frame, center, radius), 1, center, radius)

\* the position term of the rank: 1.0 - abs(dist - R * 0.7) / (R * 0.3)
PositionScore(dist, r) ==
    FSub(FromInt(1), FDiv(FAbs(FSub(dist, FMul(r, Lit(7, 10)))), FMul(r, Lit(3, 10))))

\* rank_candidate(candidate)
rank_candidate(c, radius) ==
    FAdd(FAdd(FAdd(FMul(FromInt(c.brightness), Lit(4, 10)),
                   FMul(c.circularity, Lit(3, 10))),
              FMul(FMin(FDiv(c.area, FromInt(100)), FromInt(1)), Lit(2, 10))),
         FMul(PositionScore(c.dist, FromInt(radius.px)), Lit(1, 10)))

\* sorted(candidates, key=rank_candidate, reverse=True): descending and
\* stable, by insertion from the right
RECURSIVE InsertRanked(_, _, _)
InsertRanked(c, sorted, radius) ==
    IF sorted = <<>> THEN <<c>>
    ELSE IF FLt(rank_candidate(c, radius), rank_candidate(sorted[1], radius))
    THEN <<sorted[1]>> \o InsertRanked(c, Tail(sorted), radius)
    ELSE <<c>> \o sorted

RECURSIVE SortedByRank(_, _)
SortedByRank(cands, radius) ==
    IF cands = <<>> THEN <<>>
    ELSE InsertRanked(cands[1], SortedByRank(Tail(cands), radius), radius)

PosOf(c) == [x |-> c.cx, y |-> c.cy]

\* max(candidates, key=rank_candidate): the first candidate of the highest
\* rank, which the stable descending sort puts first
BestCandidate(ranked) == ranked[1]

\* the search that gives up the detection when no alternative is closer
RECURSIVE FirstCloser_OrNothing(_, _, _, _, _)
FirstCloser_OrNothing(alternatives, i, last, prev_distance, ball_pos) ==
    IF i > Len(alternatives) THEN None
    ELSE IF FLt(Distance(PosOf(alternatives[i]), last), FMul(prev_distance, Lit(7, 10)))
    THEN PosOf(alternatives[i])
    ELSE FirstCloser_OrNothing(alternatives, i + 1, last, prev_distance, ball_pos)

\* the first alternative, in ranked order after the best, that is closer to
\* the previous position than 70% of prev_distance; none: the position kept
RECURSIVE FirstCloser(_, _, _, _, _)
FirstCloser(alternatives, i, last, prev_distance, ball_pos) ==
    IF i > Len(alternatives) THEN ball_pos
    ELSE IF FLt(Distance(PosOf(alternatives[i]), last), FMul(prev_distance, Lit(7, 10)))
    THEN PosOf(alternatives[i])
    ELSE FirstCloser(alternatives, i + 1, last, prev_distance, ball_pos)

\* the search among the alternatives made for every jump
CheckMotion_AnyJump(ranked, radius, last, prev_distance) ==
    FirstCloser(Tail(ranked), 1, last, prev_distance,
                PosOf(BestCandidate(ranked)))

\* if prev_distance > self.wheel_radius * 0.3: look among the alternatives
CheckMotion(ranked, radius, last, prev_distance) ==
    IF FLt(FMul(FromInt(radius.px), Lit(3, 10)), prev_distance)
    THEN FirstCloser(Tail(ranked), 1, last, prev_distance,
                     PosOf(BestCandidate(ranked)))
    ELSE PosOf(BestCandidate(ranked))

\* the position detect_ball settles on, given the candidates by rank
SelectRanked(ranked, radius, last) ==
    IF last = None THEN PosOf(BestCandidate(ranked))
    ELSE CheckMotion(ranked, radius, last,
                     Distance(PosOf(BestCandidate(ranked)), last))

\* the position detect_ball settles on, given a non-empty candidate list
SelectBall(cands, radius, last) ==
    SelectRanked(SortedByRank(cands, radius), radius, last)

\* the history update with pop() in place of pop(0)
UpdatedHistory_PopNewest(history, ball_pos) ==
    LET appended == Append(history, ball_pos)
    IN  IF Len(appended) > HistoryCap
        THEN SubSeq(appended, 1, Len(appended) - 1)
        ELSE appended

\* self.ball_history.append(ball_pos), then pop(0) beyond the cap
UpdatedHistory(history, ball_pos) ==
    LET appended == Append(history, ball_pos)
    IN  IF Len(appended) > HistoryCap THEN Tail(appended) ELSE appended

\* the end of detect_wheel if it forgot the wheel it knew on finding none
StoreWheel_ClearOnFailure(found) ==
    /\ ret' = found
    /\ wheel_center' = found.center
    /\ wheel_radius' = found.radius

\* the end of detect_wheel: a wheel found is stored and returned, none found
\* leaves the stored wheel and returns (None, None)
StoreWheel(found) ==
    /\ ret' = found
    /\ wheel_center' = IF found = NoWheel THEN wheel_center ELSE found.center
    /\ wheel_radius' = IF found = NoWheel THEN wheel_radius ELSE found.radius

\* detect_wheel(frame)
DetectWheel(frame) ==
    /\ op' = "detect_wheel"
    /\ frame_in' = frame
    /\ StoreWheel(detect_wheel(frame))
    /\ UNCHANGED <<last_ball_position, ball_history>>
    /\ UNCHANGED <<simVars, predVars, kinVars>>

\* a miss that also forgets where the ball was last seen
ReturnNone_Forget ==
    /\ ret' = None
    /\ last_ball_position' = None
    /\ UNCHANGED ball_history

\* return None: the tracking state is not touched
ReturnNone ==
    /\ ret' = None
    /\ UNCHANGED <<last_ball_position, ball_history>>

\* the history update that leaves last_ball_position as it was
ReturnBall_NotRemembered(ball_pos) ==
    /\ UNCHANGED last_ball_position
    /\ ball_history' = UpdatedHistory(ball_history, ball_pos)
    /\ ret' = ball_pos

\* the history update and return ball_pos
ReturnBall(ball_pos) ==
    /\ last_ball_position' = ball_pos
    /\ ball_history' = UpdatedHistory(ball_history, ball_pos)
    /\ ret' = ball_pos

\* if candidates: ... return ball_pos; otherwise return None
PickBall(candidates, radius) ==
    IF candidates # <<>>
    THEN ReturnBall(SelectBall(candidates, radius, last_ball_position))
    ELSE ReturnNone

\* detect_ball from the wheel check on, with the wheel now stored
LocateBall(frame, center, radius) ==
    /\ wheel_center' = center
    /\ wheel_radius' = radius
    /\ IF center = None
       THEN ReturnNone
       ELSE PickBall(Candidates(frame, center, radius), radius)

\* detect_ball that goes on with the wheel it had, whatever the wheel
\* detection it triggered finds
AutoDetect_Ignored(frame, found) ==
    LocateBall(frame, wheel_center, wheel_radius)

\* if self.wheel_center is None: self.detect_wheel(frame); found is what that
\* call returned, (None, None) also if it was not made
AutoDetect(frame, found) ==
    LocateBall(frame,
               IF found = NoWheel THEN wheel_center ELSE found.center,
               IF found = NoWheel THEN wheel_radius ELSE found.radius)

\* detect_ball that detects the wheel anew in every frame
DetectBall_Redetect(frame) ==
    /\ op' = "detect_ball"
    /\ frame_in' = frame
    /\ AutoDetect(frame, detect_wheel(frame))
    /\ UNCHANGED <<simVars, predVars, kinVars>>

\* detect_ball(frame)
DetectBall(frame) ==
    /\ op' = "detect_ball"
    /\ frame_in' = frame
    /\ AutoDetect(frame, IF wheel_center = None THEN detect_wheel(frame) ELSE NoWheel)
    /\ UNCHANGED <<simVars, predVars, kinVars>>

\* the speed taken from the two oldest positions of the history
calculate_ball_speed_Oldest(history, interval) ==
    IF Len(history) < 2 THEN None
    ELSE IF interval = Zero THEN ZeroDivisionError
    ELSE FDiv(Distance(history[2], history[1]), interval)

\* the value calculate_ball_speed(time_interval) returns, or the exception
\* the division raises
calculate_ball_speed(history, interval) ==
    IF Len(history) < 2 THEN None
    ELSE IF interval = Zero THEN ZeroDivisionError
    ELSE FDiv(Distance(history[Len(history)], history[Len(history) - 1]), interval)

\* calculate_ball_speed(time_interval)
CalculateBallSpeed(interval) ==
    /\ op' = "calculate_ball_speed"
    /\ time_interval' = interval
    /\ ret' = calculate_ball_speed(ball_history, interval)
    /\ UNCHANGED <<detVars, calls, frames, frame_in>>
    /\ UNCHANGED <<positions, angular_velocity, radial_velocity, ball_positions,
                   wheel_angular_velocity, vision_state>>
    /\ UNCHANGED <<simVars, predVars>>

\* frames
Circle(x, y, r, edge_density, green_ratio, radial_score) ==
    [x |-> x, y |-> y, r |-> r, edge_density |-> edge_density,
     green_ratio |-> green_ratio, radial_score |-> radial_score]

\* a contour: centroid, area, perimeter and the gray level at the centroid;
\* m00 of a contour is its area
Blob(cx, cy, area, perimeter, brightness) ==
    [cx |-> cx, cy |-> cy, area |-> area, perimeter |-> perimeter,
     m00 |-> area, brightness |-> brightness]

Found(circles) == [raised |-> FALSE, circles |-> circles]
NoCircles == Found(<<>>)
Raises == [raised |-> TRUE, circles |-> <<>>]

Frame(height, width, hough, blobs) ==
    [height |-> height, width |-> width, hough |-> hough, blobs |-> blobs]

\* a wheel rim with edges, green felt and radial pockets around it
Rim(x, y, r) == Circle(x, y, r, Lit(1, 1000), Lit(1, 10), Lit(1, 2))

\* a circle with nothing of a wheel around it
Bare(x, y, r) == Circle(x, y, r, Zero, Zero, Zero)

\* a round bright spot of about 6 pixels across
Spot(cx, cy, brightness) == Blob(cx, cy, FromInt(28), FromInt(19), brightness)

FrameHeight == 200
FrameWidth == 220

\* a wheel at (100, 100) of radius 80 and the ball to its right
FrameWheelBall ==
    Frame(FrameHeight, FrameWidth,
          <<Found(<<Rim(100, 100, 80)>>), NoCircles, NoCircles, NoCircles>>,
          <<Spot(150, 100, 200)>>)

\* a wheel at (110, 110) of radius 60, found by the last configuration only,
\* after a circle that leaves the frame; two ball-like spots
FrameOtherWheel ==
    Frame(FrameHeight, FrameWidth,
          <<NoCircles, Raises, NoCircles,
            Found(<<Rim(30, 100, 80), Rim(110, 110, 60)>>)>>,
          <<Spot(150, 105, 180), Spot(110, 150, 240)>>)

\* a circle that scores too low for a wheel, and a ball above the centre
FrameWeakWheel ==
    Frame(FrameHeight, FrameWidth,
          <<Found(<<Bare(100, 100, 80)>>), NoCircles, NoCircles, NoCircles>>,
          <<Spot(100, 50, 220)>>)

\* strong circles at the edges: one reaching the right edge, one reaching
\* the bottom edge, and one touching the left edge from inside
FrameEdgeWheels ==
    Frame(FrameHeight, FrameWidth,
          <<Found(<<Rim(140, 100, 80)>>), Found(<<Rim(100, 120, 80)>>), NoCircles,
            Found(<<Rim(80, 100, 80)>>)>>,
          <<Spot(130, 100, 200)>>)

\* a strong circle that leaves the frame at the top, in a smaller frame
FrameOutside ==
    Frame(180, 200,
          <<NoCircles, Found(<<Rim(100, 80, 85)>>), NoCircles, NoCircles>>,
          <<Spot(100, 130, 200)>>)

\* two equally strong wheels, found by different configurations
FrameTwoWheels ==
    Frame(FrameHeight, FrameWidth,
          <<Found(<<Rim(100, 100, 80)>>), Found(<<Rim(110, 100, 80)>>), NoCircles,
            NoCircles>>,
          <<Spot(150, 100, 200)>>)

\* a faint wheel found first, then a failing configuration, then a bare
\* circle and a strong wheel
FrameLateWheel ==
    Frame(FrameHeight, FrameWidth,
          <<Found(<<Circle(100, 100, 80, Lit(1, 1000), Zero, Zero)>>), Raises,
            NoCircles, Found(<<Bare(90, 90, 50), Rim(110, 110, 60)>>)>>,
          <<Spot(150, 100, 200)>>)

\* a large frame with a large circle that scores 0.3: edges only
FrameThreshold ==
    Frame(640, 640,
          <<Found(<<Circle(320, 320, 300, Lit(1, 1000), Zero, Zero)>>), NoCircles,
            NoCircles, NoCircles>>,
          <<>>)

\* nothing
FrameEmpty ==
    Frame(FrameHeight, FrameWidth,
          <<NoCircles, NoCircles, NoCircles, NoCircles>>, <<>>)

\* no circle; a speck, a streak, a glare on the hub and one beyond the rim
FrameNoise ==
    Frame(FrameHeight, FrameWidth,
          <<NoCircles, NoCircles, Raises, NoCircles>>,
          <<Blob(150, 100, FromInt(3), FromInt(6), 250),
            Blob(100, 150, FromInt(40), FromInt(60), 250),
            Spot(104, 103, 255),
            Spot(190, 100, 255)>>)

AllVisionFrames ==
    {FrameWheelBall, FrameOtherWheel, FrameWeakWheel, FrameEdgeWheels,
     FrameOutside, FrameTwoWheels, FrameLateWheel, FrameThreshold,
     FrameEmpty, FrameNoise}

VisionFrames == {frame \in AllVisionFrames : HoughContract(frame)}

\* the longest run of detector calls explored
MaxCalls == 3

DetectorInit ==
    /\ VisionInit /\ CallIdle
    /\ SimIdle /\ PredIdle /\ KinIdle

CallDetectWheel ==
    /\ calls < MaxCalls
    /\ calls' = calls + 1
    /\ UNCHANGED frames
    /\ \E frame \in VisionFrames : DetectWheel(frame)

CallDetectBall ==
    /\ calls < MaxCalls
    /\ calls' = calls + 1
    /\ UNCHANGED frames
    /\ \E frame \in VisionFrames : DetectBall(frame)

VisionNext == CallDetectWheel \/ CallDetectBall

SpecVision == DetectorInit /\ [][VisionNext]_vars

\* a recorded session: the wheel stays put and the ball is seen to the
\* right of the centre, below it, or not at all
FrameBallRight ==
    Frame(FrameHeight, FrameWidth,
          <<Found(<<Rim(100, 100, 80)>>), NoCircles, NoCircles, NoCircles>>,
          <<Spot(150, 100, 200)>>)

FrameBallBelow ==
    Frame(FrameHeight, FrameWidth,
          <<Found(<<Rim(100, 100, 80)>>), NoCircles, NoCircles, NoCircles>>,
          <<Spot(100, 150, 200)>>)

\* the number of frames of a recorded session
MaxFrames == 24

\* the session that repeats a pattern of frames
Repeat(pattern, n) == [i \in 1..n |-> pattern[((i - 1) % Len(pattern)) + 1]]

SessionPatterns ==
    {<<FrameBallRight>>,
     <<FrameBallRight, FrameBallBelow>>,
     <<FrameBallBelow, FrameBallRight, FrameEmpty>>,
     <<FrameEmpty, FrameBallRight, FrameBallRight, FrameBallBelow>>,
     <<FrameBallBelow, FrameBallBelow, FrameBallRight, FrameEmpty, FrameBallRight>>,
     <<FrameEmpty, FrameEmpty, FrameBallBelow>>}

Sessions == {Repeat(pattern, MaxFrames) : pattern \in SessionPatterns}

SessionInit ==
    /\ VisionInit
    /\ op = "init" /\ ret = None /\ calls = 0 /\ frame_in = None
    /\ frames \in Sessions
    /\ SimIdle /\ PredIdle /\ KinIdle

\* one turn of the analysis loop: the next frame goes to detect_ball, which
\* detects the wheel itself as long as none is known
TrackBall ==
    /\ frames # <<>>
    /\ DetectBall(Head(frames))
    /\ frames' = Tail(frames)
    /\ calls' = calls + 1

\* the time intervals passed to calculate_ball_speed; 0.1 is the default
SpeedIntervals == {Zero, Lit(1, 10), Lit(1, 2)}

\* the speed is asked for between two frames
AskBallSpeed == \E interval \in SpeedIntervals : CalculateBallSpeed(interval)

HistoryNext == TrackBall \/ AskBallSpeed

SpecHistory == SessionInit /\ [][HistoryNext]_vars

\* get_ball_angle(): None without a ball position or a wheel centre
get_ball_angle(last, center) ==
    IF last = None \/ center = None THEN None
    ELSE Atan2(last.y - center.y, last.x - center.x)

GetBallAngle ==
    /\ op' = "get_ball_angle"
    /\ ret' = get_ball_angle(last_ball_position, wheel_center)
    /\ UNCHANGED <<detVars, calls, frames, frame_in>>
    /\ UNCHANGED <<simVars, predVars, kinVars>>

\* the wheel is looked for in the frame that comes next
FindWheel ==
    /\ frames # <<>>
    /\ calls < MaxFrames
    /\ DetectWheel(Head(frames))
    /\ calls' = calls + 1
    /\ UNCHANGED frames

AngleNext == TrackBall \/ FindWheel \/ GetBallAngle

SpecAngle == SessionInit /\ [][AngleNext]_vars

\* frames of one wheel at (100, 100) of radius 80 with several ball-like
\* spots; the contour order is not the order of rank
MotionFrame(blobs) ==
    Frame(FrameHeight, FrameWidth,
          <<Found(<<Rim(100, 100, 80)>>), NoCircles, NoCircles, NoCircles>>,
          blobs)

MotionFrames ==
    {\* one ball, to the right of the centre
     MotionFrame(<<Spot(150, 100, 200)>>),
     \* one ball, below the centre
     MotionFrame(<<Spot(100, 150, 200)>>),
     \* the brightest below, a dimmer one to the right
     MotionFrame(<<Spot(152, 100, 200), Spot(100, 150, 250)>>),
     \* the brightest below, the next to the left, the dimmest to the right
     MotionFrame(<<Spot(50, 100, 230), Spot(150, 110, 200), Spot(100, 150, 250)>>),
     \* the brightest and a dimmer one, both to the right
     MotionFrame(<<Spot(160, 100, 250), Spot(150, 100, 200)>>),
     \* the brightest below, a dimmer one between below and right
     MotionFrame(<<Spot(100, 150, 250), Spot(110, 145, 200)>>),
     \* the brightest below, two dimmer ones to the right
     MotionFrame(<<Spot(150, 100, 200), Spot(100, 150, 250), Spot(150, 120, 230)>>),
     \* two equal spots, below and to the right
     MotionFrame(<<Spot(100, 150, 200), Spot(150, 100, 200)>>)}

\* detect_ball on frames with several candidates
CallDetectMotion ==
    /\ calls < MaxCalls
    /\ calls' = calls + 1
    /\ UNCHANGED frames
    /\ \E frame \in MotionFrames : DetectBall(frame)

SpecMotion == DetectorInit /\ [][CallDetectMotion]_vars

\* frames of one wheel at (100, 100) of radius 80 and one bright contour of
\* a given area and perimeter at a place on the ball track
FilterFrame(pos, shape) ==
    Frame(FrameHeight, FrameWidth,
          <<Found(<<Rim(100, 100, 80)>>), NoCircles, NoCircles, NoCircles>>,
          <<Blob(pos.x, pos.y, shape.area, shape.perimeter, 200)>>)

Shape(area, perimeter) == [area |-> area, perimeter |-> perimeter]

\* areas around both ends of the accepted range, in round and in stretched
\* contours
FilterShapes ==
    {Shape(FromInt(3), FromInt(7)),
     Shape(FromInt(5), Lit(17, 2)),
     Shape(Lit(11, 2), FromInt(9)),
     Shape(FromInt(28), FromInt(19)),
     Shape(FromInt(28), FromInt(40)),
     Shape(FromInt(40), FromInt(60)),
     Shape(FromInt(498), FromInt(82)),
     Shape(FromInt(500), FromInt(82)),
     Shape(FromInt(600), FromInt(90))}

FilterFrames ==
    {FilterFrame(pos, shape) :
        pos \in {[x |-> 150, y |-> 100], [x |-> 100, y |-> 150]},
        shape \in FilterShapes}

\* detect_ball on frames with one contour
CallDetectFiltered ==
    /\ calls < MaxCalls
    /\ calls' = calls + 1
    /\ UNCHANGED frames
    /\ \E frame \in FilterFrames : DetectBall(frame)

SpecFilter == DetectorInit /\ [][CallDetectFiltered]_vars

\* frames of one wheel at (100, 100) of radius 80 and one ball-like spot at
\* a given distance to the right of the centre
AnnulusFrame(dist) ==
    Frame(FrameHeight, FrameWidth,
          <<Found(<<Rim(100, 100, 80)>>), NoCircles, NoCircles, NoCircles>>,
          <<Spot(100 + dist, 100, 200)>>)

\* distances on the hub, around 20% and 30% of the radius, on the track,
\* around 95% of the radius and beyond the rim
AnnulusDistances == {0, 10, 15, 16, 17, 20, 24, 25, 50, 75, 76, 77, 90}

AnnulusFrames == {AnnulusFrame(dist) : dist \in AnnulusDistances}

\* detect_ball on frames with one spot
CallDetectAnnulus ==
    /\ calls < MaxCalls
    /\ calls' = calls + 1
    /\ UNCHANGED frames
    /\ \E frame \in AnnulusFrames : DetectBall(frame)

SpecAnnulus == DetectorInit /\ [][CallDetectAnnulus]_vars

(***************************************************************************)
(* Claims about simulate_trajectory                                        *)
(***************************************************************************)

\* C1: whenever simulate_trajectory has returned, the trajectory is non-empty
\* and its first element is the caller's initial state, field for field; and
\* no step of the call ever changes the caller's initial state.
C1_FirstStateIsInput ==
    /\ [](pc = "done" => Len(states) >= 1 /\ states[1] = initial_state)
    /\ [][initial_state' = initial_state]_vars

\* a returned trajectory of several states
C1_Witness == pc = "done" /\ Len(states) >= 3

\* C2 as claimed: every state of a returned trajectory, the first included,
\* has a ball radius of at least 0.05.
C2_AllRadiiAtLeastFloor ==
    pc = "done" =>
        \A i \in 1..Len(states) : FLe(Lit(5, 100), states[i].ball_position[2])

\* C2 amended: every state after the first has a ball radius of at least
\* 0.05; the first state keeps the radius the caller supplied.
C2_ProducedRadiiAtLeastFloor ==
    /\ \A i \in 2..Len(states) : FLe(Lit(5, 100), states[i].ball_position[2])
    /\ states[1].ball_position[2] = initial_state.ball_position[2]

\* the floor acted: a ball that started below 0.05 and moving inward is at 0.05
C2_Witness ==
    /\ pc = "done"
    /\ Len(states) >= 2
    /\ FLt(states[1].ball_position[2], Lit(5, 100))
    /\ FLt(states[2].ball_velocity[2], Zero)
    /\ states[2].ball_position[2] = Lit(5, 100)

\* ceil(a / b) in exact arithmetic, for floats a >= 0 and b > 0
CeilDiv(a, b) ==
    LET n == IF a.e >= b.e THEN a.m * Pow2(a.e - b.e) ELSE a.m
        d == IF a.e >= b.e THEN b.m ELSE b.m * Pow2(b.e - a.e)
    IN  (n + d - 1) \div d

\* C3: a returned trajectory has at most ceil(simulation_time / dt) + 1
\* states (simulation_time >= 0, dt > 0).
C3_LengthBound ==
    pc = "done" => Len(states) <= CeilDiv(simulation_time, dt) + 1

(***************************************************************************)
(* Claims about predict_landing_position and get_prediction_confidence     *)
(***************************************************************************)

\* C4: for every trajectory, predict_landing_position returns a number that
\* is an entry of the 37-entry wheel layout, so an integer in 0..36, with a
\* relative angle in [0, 2*pi); the segment index of the lookup is in 0..36.
C4_LandingInRange ==
    landing # Pending =>
        /\ Len(wheel_numbers) = 37
        /\ \E i \in 1..37 : wheel_numbers[i] = landing.predicted_number
        /\ landing.predicted_number \in 0..36
        /\ FLe(Zero, landing.relative_angle)
        /\ FLt(landing.relative_angle, TwoPi)
        /\ trajectory # <<>> => landing.segment_index \in 0..36

\* a prediction for a trajectory whose relative angle had to be wrapped
C4_Witness ==
    /\ landing # Pending
    /\ Len(trajectory) = 2
    /\ FLt(FSub(trajectory[2].ball_position[1],
                FMul(trajectory[1].wheel_velocity,
                     FSub(trajectory[2].time, trajectory[1].time))), Zero)
    /\ landing.predicted_number # 0

\* 1000 times clamp(1 - variance/10, 0.1, 1.0) in exact arithmetic, for the
\* integer-valued angular velocities of the first 10 states
ExactConfidence1000(traj) ==
    LET x == [i \in 1..10 |-> Trunc(traj[i].ball_velocity[1])]
        sum == x[1] + x[2] + x[3] + x[4] + x[5] + x[6] + x[7] + x[8] + x[9] + x[10]
        squares == x[1]*x[1] + x[2]*x[2] + x[3]*x[3] + x[4]*x[4] + x[5]*x[5]
                   + x[6]*x[6] + x[7]*x[7] + x[8]*x[8] + x[9]*x[9] + x[10]*x[10]
        c == 1000 - (10 * squares - sum * sum)
    IN  IF c < 100 THEN 100 ELSE IF c > 1000 THEN 1000 ELSE c

\* 1000 times the rounding error allowed when the float result is compared
\* with the exact one: 13 units in the last place of the format
Tolerance1000 == (13 * 1000) \div Pow2(MantBits)

\* C5: get_prediction_confidence returns exactly 0.1 for a trajectory of
\* fewer than 10 states; for 10 or more states it returns a value in
\* [0.1, 1.0] that is clamp(1 - variance/10, 0.1, 1.0) up to rounding, the
\* variance being that of the first 10 angular velocities, and that is the
\* same as for the first 10 states alone.
C5_Confidence ==
    confidence # Pending =>
        /\ Len(trajectory) < 10 => confidence = Lit(1, 10)
        /\ Len(trajectory) >= 10 =>
             /\ FLe(Lit(1, 10), confidence)
             /\ FLe(confidence, FromInt(1))
             /\ FLe(Lit(ExactConfidence1000(trajectory) - Tolerance1000, 1000),
                    confidence)
             /\ FLe(confidence,
                    Lit(ExactConfidence1000(trajectory) + Tolerance1000, 1000))
             /\ confidence = get_prediction_confidence(SubSeq(trajectory, 1, 10))

\* a confidence strictly inside (0.1, 1.0) for a trajectory of 11 states
\* whose 11th angular velocity differs from the first ten
C5_Witness ==
    /\ confidence # Pending
    /\ Len(trajectory) = 11
    /\ FLt(Lit(1, 10), confidence)
    /\ FLt(confidence, FromInt(1))
    /\ trajectory[11].ball_velocity[1] # trajectory[10].ball_velocity[1]

(***************************************************************************)
(* Claims about the kinematics                                             *)
(***************************************************************************)

\* C6: for at least 2 polar positions with angles in [-pi, pi] and dt > 0,
\* every angle difference entering the average has magnitude at most pi,
\* the angular velocity has magnitude at most pi/dt, and for the angles 3.0
\* then -3.0 it is (2*pi - 6)/dt, not -6/dt.
C6_Wraparound ==
    (angular_velocity # Pending /\ Len(positions) >= 2) =>
        /\ \A i \in 1..(Len(positions) - 1) :
               FLe(FAbs(AngleDiffs(positions)[i]), Pi)
        /\ FLe(FAbs(angular_velocity), FDiv(Pi, time_interval))
        /\ (Len(positions) = 2 /\ positions[1][1] = Lit(3, 1)
                               /\ positions[2][1] = Lit(-3, 1)) =>
               /\ angular_velocity = FDiv(FSub(TwoPi, Lit(6, 1)), time_interval)
               /\ angular_velocity # FDiv(Lit(-6, 1), time_interval)

\* the velocity computed for the angles 3.0 then -3.0
C6_Witness ==
    /\ angular_velocity # Pending
    /\ Len(positions) = 2
    /\ positions[1][1] = Lit(3, 1)
    /\ positions[2][1] = Lit(-3, 1)

\* C7: create_state_from_vision returns None exactly when fewer than 2
\* positions are supplied; for 2 or more positions and time_interval # 0 it
\* returns the state with time 0, the polar conversion of the last position,
\* the caller's wheel velocity, and the velocities calculate_angular_velocity
\* and calculate_radial_velocity give for the whole converted sequence.
C7_StateFromVision ==
    vision_state # Pending =>
        /\ vision_state = None <=> Len(ball_positions) < 2
        /\ (Len(ball_positions) >= 2 /\ time_interval # Zero) =>
             LET polar == [i \in 1..Len(ball_positions) |->
                             pixel_coords_to_polar(ball_positions[i], StateCenter)]
             IN  /\ vision_state.time = Zero
                 /\ vision_state.ball_position =
                        pixel_coords_to_polar(ball_positions[Len(ball_positions)],
                                              StateCenter)
                 /\ vision_state.wheel_velocity = wheel_angular_velocity
                 /\ vision_state.ball_velocity =
                        <<calculate_angular_velocity(polar, time_interval),
                          calculate_radial_velocity(polar, time_interval)>>

\* a state built from three positions, the last differing from the first two
C7_Witness ==
    /\ vision_state # Pending
    /\ vision_state # None
    /\ vision_state # ZeroDivisionError
    /\ Len(ball_positions) = 3
    /\ ball_positions[3] # ball_positions[1]
    /\ ball_positions[3] # ball_positions[2]
    /\ vision_state.ball_velocity[1] # Zero

(***************************************************************************)
(* Claims about the detector's tracking state                              *)
(***************************************************************************)

\* the last n elements of a sequence, all of them if it has fewer
LastN(s, n) == IF Len(s) <= n THEN s ELSE SubSeq(s, Len(s) - n + 1, Len(s))

\* C8: ball_history never holds more than 15 positions and is a first-in
\* first-out window: a successful detect_ball appends the returned position
\* and, beyond 15, drops the oldest, a failed one leaves the history as it
\* is, so that the history is always the most recent min(n, 15) positions
\* returned, oldest first.
C8_HistoryWindow ==
    /\ [](Len(ball_history) <= 15)
    /\ [][IF calls' = calls + 1 /\ op' = "detect_ball" /\ ret' # None
          THEN ball_history' = LastN(Append(ball_history, ret'), 15)
          ELSE ball_history' = ball_history]_vars

\* sixteen detections in a row, alternating between two places: the first
\* one has left the history
C8_Witness ==
    /\ calls = 16
    /\ op = "detect_ball"
    /\ Len(ball_history) = 15
    /\ \A i \in 1..15 :
          ball_history[i] = IF i % 2 = 1 THEN [x |-> 100, y |-> 150]
                                         ELSE [x |-> 150, y |-> 100]
    /\ ret = ball_history[15]

\* C9: a detect_ball call that returns None leaves ball_history and
\* last_ball_position as they were, and a call that returns a position makes
\* it the last position and appends it to the history it found.
C9_MissKeepsTracking ==
    [][(calls' = calls + 1 /\ op' = "detect_ball")
       => IF ret' = None
          THEN UNCHANGED <<ball_history, last_ball_position>>
          ELSE /\ last_ball_position' = ret'
               /\ ball_history' = LastN(Append(ball_history, ret'), 15)]_vars

\* a miss on a known wheel after the ball had been seen
C9_Witness ==
    /\ op = "detect_ball"
    /\ ret = None
    /\ wheel_center # None
    /\ ball_history # <<>>
    /\ last_ball_position = ball_history[Len(ball_history)]

\* C10: detect_wheel either returns a centre and a radius and stores exactly
\* these in wheel_center and wheel_radius, or returns (None, None) and leaves
\* both as they were; neither way does it touch ball_history or
\* last_ball_position.
C10_DetectWheelEffect ==
    [][(calls' = calls + 1 /\ op' = "detect_wheel")
       => /\ \/ /\ ret'.center # None /\ ret'.radius # None
                /\ wheel_center' = ret'.center
                /\ wheel_radius' = ret'.radius
             \/ /\ ret' = NoWheel
                /\ UNCHANGED <<wheel_center, wheel_radius>>
          /\ UNCHANGED <<ball_history, last_ball_position>>]_vars

\* a failed detection on a detector that knows a wheel and has seen the ball
C10_Witness ==
    /\ op = "detect_wheel"
    /\ ret = NoWheel
    /\ wheel_center # None
    /\ wheel_radius # None
    /\ ball_history # <<>>

\* C11: detect_ball returns a position only with a wheel set.  Called with
\* no wheel set, it stores what detect_wheel finds in the same frame; if that
\* is nothing, it returns None and leaves the tracking state alone.  Called
\* with a wheel set, it keeps that wheel.
C11_BallNeedsWheel ==
    [][(calls' = calls + 1 /\ op' = "detect_ball")
       => /\ ret' # None => wheel_center' # None /\ wheel_radius' # None
          /\ IF wheel_center = None
             THEN /\ [center |-> wheel_center', radius |-> wheel_radius']
                        = detect_wheel(frame_in')
                  /\ wheel_center' = None
                        => /\ ret' = None
                           /\ UNCHANGED <<ball_history, last_ball_position>>
             ELSE UNCHANGED <<wheel_center, wheel_radius>>]_vars

\* the first call made is a detect_ball that found the wheel itself and
\* then the ball
C11_Witness ==
    /\ calls = 1
    /\ op = "detect_ball"
    /\ wheel_center # None
    /\ ret # None
    /\ ball_history = <<ret>>

\* the bounding box of a circle lies inside a frame
BoxInside(center, r, frame) ==
    /\ center.x - r >= 0 /\ center.y - r >= 0
    /\ center.x + r < frame.width /\ center.y + r < frame.height

\* C15: wheel_center and wheel_radius are both unset or both set; a set
\* radius is positive; and whenever a call stores or returns a wheel, the
\* bounding box of its circle lies inside the frame of that call, so that a
\* circle leaving the frame is never stored.
C15_WheelInsideFrame ==
    /\ []((wheel_center = None) = (wheel_radius = None))
    /\ [](wheel_radius # None => wheel_radius.px > 0)
    /\ [][(wheel_center' # wheel_center \/ wheel_radius' # wheel_radius)
          => /\ wheel_center' # None
             /\ BoxInside(wheel_center', wheel_radius'.px, frame_in')]_vars
    /\ [][(calls' = calls + 1 /\ op' = "detect_wheel" /\ ret' # NoWheel)
          => BoxInside(ret'.center, ret'.radius.px, frame_in')]_vars

\* the wheel stored from a frame that also shows circles of the same score
\* reaching the right and the bottom edge: the one touching the left edge
C15_Witness ==
    /\ frame_in = FrameEdgeWheels
    /\ wheel_center = [x |-> 80, y |-> 100]
    /\ wheel_radius = Box(80)

\* the distance between the last two entries of the history
LastStep(history) == Distance(history[Len(history)], history[Len(history) - 1])

\* C16: calculate_ball_speed returns None exactly when ball_history has fewer
\* than 2 entries; otherwise it returns the distance between the last two
\* entries divided by time_interval, which is not negative; it changes no
\* detector state.
C16_BallSpeed ==
    [][op' = "calculate_ball_speed"
       => /\ ret' = None <=> Len(ball_history) < 2
          /\ Len(ball_history) >= 2
             => /\ ret' # ZeroDivisionError
                /\ ret' = FDiv(LastStep(ball_history), time_interval')
                /\ FLe(Zero, ret')
          /\ UNCHANGED detVars]_vars

\* C16, for the time intervals it holds for: as C16_BallSpeed, the value
\* returned for 2 or more entries being that of a positive time_interval; with
\* time_interval 0 the division raises ZeroDivisionError.
C16_BallSpeedPositiveInterval ==
    [][op' = "calculate_ball_speed"
       => /\ ret' = None <=> Len(ball_history) < 2
          /\ (Len(ball_history) >= 2 /\ FLt(Zero, time_interval'))
             => /\ ret' # ZeroDivisionError
                /\ ret' = FDiv(LastStep(ball_history), time_interval')
                /\ FLe(Zero, ret')
          /\ (Len(ball_history) >= 2 /\ time_interval' = Zero)
             => ret' = ZeroDivisionError
          /\ UNCHANGED detVars]_vars

\* a speed above 0 from a history whose last two entries differ and whose
\* first two are the same
C16_Witness ==
    /\ op = "calculate_ball_speed"
    /\ Len(ball_history) >= 3
    /\ ball_history[1] = ball_history[2]
    /\ ball_history[Len(ball_history)] # ball_history[Len(ball_history) - 1]
    /\ time_interval = Lit(1, 10)
    /\ ret # None /\ ret # ZeroDivisionError
    /\ FLt(Zero, ret)

\* the first of a non-empty set of indices
First(Q) == CHOOSE i \in Q : \A j \in Q : i <= j

\* the rule of C17 once the top candidate has jumped by more than 30% of the
\* radius: the highest-ranked other candidate closer to the previous
\* observation than 70% of the jump, else the top candidate
AfterJump(ranked, closer) ==
    IF closer = {} THEN PosOf(ranked[1]) ELSE PosOf(ranked[First(closer)])

\* the rule of C17, for the candidates by rank and the jump of the first
MotionRule(ranked, radius, last, jump) ==
    IF FLe(jump, FMul(FromInt(radius.px), Lit(3, 10)))
    THEN PosOf(ranked[1])
    ELSE AfterJump(ranked,
                   {i \in 2..Len(ranked) :
                       FLt(Distance(PosOf(ranked[i]), last), FMul(jump, Lit(7, 10)))})

\* the chosen position follows the rule and is not farther from the previous
\* observation than the top candidate
FollowsMotionRule(ranked, radius, last, chosen) ==
    \A jump \in {Distance(PosOf(ranked[1]), last)} :
        /\ chosen = MotionRule(ranked, radius, last, jump)
        /\ FLe(Distance(chosen, last), jump)

\* C17: with a previous observation, detect_ball returns the top-ranked
\* candidate if that is at most 30% of the wheel radius from the previous
\* observation; otherwise the highest-ranked other candidate that is closer
\* to the previous observation than 70% of the top candidate's distance, or
\* the top candidate if there is none.  The position returned is never
\* farther from the previous observation than the top candidate.
C17_MotionConsistency ==
    [][(/\ calls' = calls + 1
        /\ op' = "detect_ball"
        /\ ret' # None
        /\ last_ball_position # None)
       => \A ranked \in {SortedByRank(Candidates(frame_in', wheel_center',
                                                   wheel_radius'),
                                        wheel_radius')} :
             FollowsMotionRule(ranked, wheel_radius', last_ball_position, ret')]_vars

\* of three candidates the brightest is far from the ball seen before at
\* (150, 100), the next still farther: the dimmest, near by, is returned
C17_Witness ==
    /\ op = "detect_ball"
    /\ calls >= 2
    /\ Len(frame_in.blobs) = 3
    /\ frame_in.blobs[1].brightness = 230
    /\ ret = [x |-> 150, y |-> 110]
    /\ Len(ball_history) >= 2
    /\ ball_history[Len(ball_history) - 1] = [x |-> 150, y |-> 100]

\* a contour the claim keeps: area in [5, 500] and circularity at least 0.3
KeptByClaim(b) ==
    /\ FLe(FromInt(5), b.area) /\ FLe(b.area, FromInt(500))
    /\ FLe(Lit(3, 10), Circularity(b))

\* C18: a contour with a non-zero perimeter and moment and a centroid on the
\* track is rejected if and only if its area is outside [5, 500] or its
\* circularity is below 0.3: of a frame with one such contour, detect_ball
\* returns the position exactly if the area is in [5, 500], the ends
\* included, and the circularity is at least 0.3.
C18_ClosedAreaRange ==
    [][(calls' = calls + 1 /\ op' = "detect_ball" /\ Len(frame_in'.blobs) = 1)
       => \A b \in {frame_in'.blobs[1]} :
             (/\ FLt(Zero, b.perimeter) /\ b.m00 # Zero
              /\ OnTrack(Distance([x |-> b.cx, y |-> b.cy], wheel_center'),
                         wheel_radius'))
             => (ret' # None <=> KeptByClaim(b))]_vars

\* strictly between 20% and 95% of the radius
InsideAnnulus(dist, radius) ==
    /\ FLt(FMul(FromInt(radius.px), Lit(2, 10)), dist)
    /\ FLt(dist, FMul(FromInt(radius.px), Lit(95, 100)))

\* nearer than 20% or farther than 95% of the radius
OutsideAnnulus(dist, radius) ==
    \/ FLt(dist, FMul(FromInt(radius.px), Lit(2, 10)))
    \/ FLt(FMul(FromInt(radius.px), Lit(95, 100)), dist)

\* C19: every position detect_ball returns lies strictly between 20% and 95%
\* of the wheel radius from the wheel centre; and the mask removes what is
\* nearer than 20% or farther than 95% and keeps what is between: of a frame
\* with one ball-like spot, detect_ball returns None if the spot is outside
\* that annulus and the spot's position if it is inside.
C19_TrackAnnulus ==
    [][(calls' = calls + 1 /\ op' = "detect_ball")
       => /\ ret' # None
             => InsideAnnulus(Distance(ret', wheel_center'), wheel_radius')
          /\ Len(frame_in'.blobs) = 1
             => \A spot \in {PosOf(frame_in'.blobs[1])} :
                  \A dist \in {Distance(spot, wheel_center')} :
                     /\ OutsideAnnulus(dist, wheel_radius') => ret' = None
                     /\ InsideAnnulus(dist, wheel_radius') => ret' = spot]_vars

\* the circles of a configuration that did not raise
Seen(frame, k) == IF frame.hough[k].raised THEN <<>> ELSE frame.hough[k].circles

\* the circles of a frame in the order detect_wheel meets them
AllSeen(frame) == Seen(frame, 1) \o Seen(frame, 2) \o Seen(frame, 3) \o Seen(frame, 4)

\* the wheel of C20: of the circles inside the frame, the first of the highest
\* score, if that score is above 0.3
HighestScoring(frame, seen, scores, inside) ==
    IF \E i \in inside : FLt(Lit(3, 10), scores[i])
    THEN LET w == CHOOSE i \in inside :
                    /\ \A j \in inside : FLe(scores[j], scores[i])
                    /\ \A j \in inside : j < i => FLt(scores[j], scores[i])
         IN  [center |-> [x |-> seen[w].x, y |-> seen[w].y], radius |-> Box(seen[w].r)]
    ELSE NoWheel

ClaimedWheel(frame, seen) ==
    HighestScoring(frame, seen,
                   [i \in 1..Len(seen) |-> ScoreWheelCandidate(seen[i])],
                   {i \in 1..Len(seen) :
                       BoxInside([x |-> seen[i].x, y |-> seen[i].y], seen[i].r, frame)})

\* C20: detect_wheel returns, and stores, the circle of the highest score
\* among the circles inside the frame that its four configurations find, the
\* first met among equal scores, provided that score is above 0.3; otherwise,
\* and also when some configuration raises, it returns (None, None) or the
\* best circle of the configurations that did not raise.
C20_HighestScoreWins ==
    [][(calls' = calls + 1 /\ op' = "detect_wheel")
       => \A claimed \in {ClaimedWheel(frame_in', AllSeen(frame_in'))} :
             /\ ret' = claimed
             /\ claimed # NoWheel
                => wheel_center' = claimed.center /\ wheel_radius' = claimed.radius]_vars

\* the wheel found by the last configuration, after a fainter wheel, a
\* failing configuration and a bare circle
C20_Witness ==
    /\ op = "detect_wheel"
    /\ frame_in = FrameLateWheel
    /\ ret = [center |-> [x |-> 110, y |-> 110], radius |-> Box(60)]
    /\ wheel_center = [x |-> 110, y |-> 110]

(***************************************************************************)
(* Claims about the failure cases of the simulator                         *)
(***************************************************************************)

\* C12: simulate_trajectory raises no exception, whatever the initial state,
\* a ball radius of 0 and velocities of 0 included.
C12_NeverRaises == pc # "raised"

\* the pair predict_landing_position returns
Returned(l) == <<l.relative_angle, l.predicted_number>>

\* C13: predict_landing_position returns (0.0, 0) for an empty trajectory,
\* and returns the same pair for a trajectory whose ball lands in segment 0
\* at relative angle 0: the caller cannot tell the two apart.
C13_EmptyDefault ==
    landing # Pending =>
        /\ trajectory = <<>> => Returned(landing) = <<Zero, 0>>
        /\ (/\ trajectory # <<>>
            /\ landing.segment_index = 0
            /\ landing.relative_angle = Zero)
           => Returned(landing) = Returned(predict_landing_position(<<>>))
        /\ Returned(predict_landing_position(
               <<RouletteState(Zero, Lit(25, 100), FromInt(2), Zero, FromInt(5), Zero)>>))
           = Returned(predict_landing_position(<<>>))

\* the prediction for the empty trajectory
C13_Witness ==
    /\ trajectory = <<>>
    /\ landing # Pending
    /\ landing.relative_angle = Zero
    /\ landing.predicted_number = 0

\* the trajectory with another wheel velocity in every state
WithWheelVelocity(traj, w) ==
    [i \in 1..Len(traj) |-> [traj[i] EXCEPT !.wheel_velocity = w]]

\* C14: when the last state of a trajectory has the time of the first, the
\* prediction is the same for every wheel velocity; with the last ball angle
\* 0.0 it is relative angle 0.0 and number 0, the first of the layout.
C14_NoElapsedTime ==
    (/\ landing # Pending
     /\ trajectory # <<>>
     /\ trajectory[Len(trajectory)].time = trajectory[1].time)
    => /\ \A w \in {Lit(-7, 2), Lit(-1, 1), Zero, Lit(1, 10), FromInt(5), FromInt(40)} :
             predict_landing_position(WithWheelVelocity(trajectory, w)) = landing
       /\ trajectory[Len(trajectory)].ball_position[1] = Zero
          => /\ Returned(landing) = <<Zero, 0>>
             /\ wheel_numbers[1] = 0
             /\ landing.segment_index = 0

\* a prediction from two states of the same non-zero time on a turning
\* wheel, the last at ball angle 0.0 and the smaller radius
C14_Witness ==
    /\ landing # Pending
    /\ Len(trajectory) = 2
    /\ trajectory[1].time = FromInt(1)
    /\ trajectory[2].time = FromInt(1)
    /\ trajectory[1].wheel_velocity = FromInt(5)
    /\ trajectory[2].ball_position = <<Zero, Lit(5, 100)>>
    /\ landing.predicted_number = 0

(***************************************************************************)
(* Claims about the course of a simulated trajectory                       *)
(***************************************************************************)

\* C21: in a returned trajectory a settled state, one with
\* |angular_velocity| < 0.1 and |radial_velocity| < 0.01, is the last state,
\* the initial state included; and every state but the last has a time below
\* initial_time + simulation_time.
C21_SettledIsLast ==
    pc = "done" =>
        /\ \A i \in 1..Len(states) : Settled(states[i]) => i = Len(states)
        /\ \A i \in 1..(Len(states) - 1) :
              FLt(states[i].time, FAdd(initial_state.time, simulation_time))

\* the wheel velocity C22 gives the state after one of wheel velocity w
Decelerated(w) == FMax(Zero, FSub(w, FMul(Lit(1, 100), dt)))

\* C22 as claimed: along every trajectory each state has the wheel velocity
\* max(0, w - 0.01 * dt) of its predecessor's w, the wheel velocity never
\* increases from a state to the next and, once 0, stays 0, for every initial
\* wheel velocity, a negative one included.
C22_WheelNeverSpeedsUp ==
    \A k \in 1..(Len(states) - 1) :
        /\ states[k + 1].wheel_velocity = Decelerated(states[k].wheel_velocity)
        /\ FLe(states[k + 1].wheel_velocity, states[k].wheel_velocity)
        /\ states[k].wheel_velocity = Zero => states[k + 1].wheel_velocity = Zero

\* C22 amended (dt > 0): each state has the wheel velocity max(0, w - 0.01 * dt)
\* of its predecessor's w; from a wheel velocity that is not negative the
\* wheel velocity does not increase and, once 0, stays 0; a negative wheel
\* velocity is followed by 0.
C22_WheelDeceleratesToZero ==
    \A k \in 1..(Len(states) - 1) :
        /\ states[k + 1].wheel_velocity = Decelerated(states[k].wheel_velocity)
        /\ FLe(Zero, states[k].wheel_velocity)
           => FLe(states[k + 1].wheel_velocity, states[k].wheel_velocity)
        /\ states[k].wheel_velocity = Zero => states[k + 1].wheel_velocity = Zero
        /\ FLt(states[k].wheel_velocity, Zero) => states[k + 1].wheel_velocity = Zero

\* a wheel that slows down from a positive velocity, reaches 0 and stays there
C22_Witness ==
    /\ pc = "done"
    /\ FLt(Zero, states[1].wheel_velocity)
    /\ \E k \in 1..(Len(states) - 1) :
          /\ FLt(Zero, states[k + 1].wheel_velocity)
          /\ FLt(states[k + 1].wheel_velocity, states[k].wheel_velocity)
    /\ \E k \in 1..(Len(states) - 1) :
          states[k].wheel_velocity = Zero /\ states[k + 1].wheel_velocity = Zero

\* a and b are non-zero and of opposite signs
Opposes(a, b) == (FLt(Zero, a) /\ FLt(b, Zero)) \/ (FLt(a, Zero) /\ FLt(Zero, b))

\* C23: in every integration step taken from a non-zero angular velocity, the
\* friction term of the angular acceleration has the sign opposite to the
\* angular velocity, clockwise and counter-clockwise alike.
C23_FrictionOpposesSpin ==
    [][(states' # states /\ current_state.ball_velocity[1] # Zero)
       => Opposes(FrictionAcceleration(current_state.ball_position[2]),
                  current_state.ball_velocity[1])]_vars

(***************************************************************************)
(* Claims about what the landing prediction depends on                     *)
(***************************************************************************)

\* the four values of a trajectory that C24 names, in a trajectory of two
\* states that holds nothing else
Essence(traj) ==
    <<RouletteState(Zero, Zero, Zero, Zero, traj[1].wheel_velocity, traj[1].time),
      RouletteState(traj[Len(traj)].ball_position[1], Zero, Zero, Zero, Zero,
                    traj[Len(traj)].time)>>

\* C24: predict_landing_position returns for a trajectory what it returns for
\* any trajectory of the same first wheel velocity, first time, last ball
\* angle and last time, whatever the other values and the states in between
\* are; the wheel rotation it subtracts from the last ball angle is the first
\* wheel velocity times the elapsed time.
C24_LandingDependsOnFour ==
    (landing # Pending /\ trajectory # <<>>) =>
        /\ Returned(landing) = Returned(predict_landing_position(Essence(trajectory)))
        /\ landing.relative_angle =
              WrapFromTwoPi(WrapBelowZero(
                  FSub(trajectory[Len(trajectory)].ball_position[1],
                       FMul(trajectory[1].wheel_velocity,
                            FSub(trajectory[Len(trajectory)].time, trajectory[1].time)))))

\* a prediction for a trajectory whose wheel velocity changes on the way and
\* whose middle state differs from both ends
C24_Witness ==
    /\ landing # Pending
    /\ Len(trajectory) = 3
    /\ trajectory[1].wheel_velocity = Lit(5, 1)
    /\ trajectory[2].wheel_velocity = Lit(-1, 1)
    /\ trajectory[3].wheel_velocity = Zero
    /\ trajectory[1].time = Zero
    /\ trajectory[3].time = Lit(1, 1)
    /\ trajectory[2].ball_position # trajectory[1].ball_position
    /\ trajectory[2].ball_position # trajectory[3].ball_position
    /\ landing.relative_angle # trajectory[3].ball_position[1]

(***************************************************************************)
(* Claims about the termination of simulate_trajectory                     *)
(***************************************************************************)

\* C25: simulate_trajectory terminates for every input, dt = 0 and dt < 0
\* with simulation_time > 0 included.  The loop is deterministic in
\* current_state, so a call that terminates makes no iteration that stays in
\* the loop and leaves current_state as it was: every such iteration advances.
C25_EveryIterationAdvances ==
    [][(pc = "loop" /\ pc' = "loop" /\ states' # states)
       => current_state' # current_state]_vars

(***************************************************************************)
(* Claims about the detector over a sequence of calls                      *)
(***************************************************************************)

\* C26: a wheel that is set is never unset; detect_ball called with a wheel
\* set leaves wheel_center and wheel_radius as they are, so it does not
\* detect the wheel again; and a set wheel changes only in a detect_wheel
\* call that finds a wheel, to the wheel that call returns.
C26_WheelKept ==
    [][wheel_center # None
       => /\ wheel_center' # None /\ wheel_radius' # None
          /\ (calls' = calls + 1 /\ op' = "detect_ball")
             => UNCHANGED <<wheel_center, wheel_radius>>
          /\ <<wheel_center', wheel_radius'>> # <<wheel_center, wheel_radius>>
             => /\ calls' = calls + 1
                /\ op' = "detect_wheel"
                /\ ret' # NoWheel
                /\ ret' = [center |-> wheel_center', radius |-> wheel_radius']]_vars

\* detect_ball has kept its wheel in a frame that shows another wheel
C26_Witness ==
    /\ op = "detect_ball"
    /\ wheel_center # None
    /\ detect_wheel(frame_in) # NoWheel
    /\ detect_wheel(frame_in).center # wheel_center

\* C27: after any sequence of detect_wheel and detect_ball calls,
\* last_ball_position is unset exactly when ball_history is empty and is
\* otherwise the last entry of ball_history; get_ball_angle returns None
\* exactly when no ball has been detected yet or no wheel is set.
C27_LastIsNewest ==
    /\ last_ball_position = None <=> ball_history = <<>>
    /\ ball_history # <<>> => last_ball_position = ball_history[Len(ball_history)]
    /\ op = "get_ball_angle"
       => (ret = None <=> (ball_history = <<>> \/ wheel_center = None))

\* the angle of the ball at the end of a session that has filled the
\* history beyond its cap
C27_Witness ==
    /\ op = "get_ball_angle"
    /\ ret # None
    /\ frames = <<>>
    /\ Len(ball_history) = HistoryCap
    /\ ball_history[1] # last_ball_position

\* a position more than 30% of the wheel radius away from another
FarFrom(pos, other, radius) ==
    100 * SquaredDistance(pos, other) > 9 * radius.px * radius.px

\* C28: whenever a frame holds at least one candidate, detect_ball returns
\* the position of one of the candidates, makes it last_ball_position and
\* appends it to ball_history, also when every candidate is farther than 30%
\* of the wheel radius from the previous observation.
C28_DetectionNeverDropped ==
    [][(calls' = calls + 1 /\ op' = "detect_ball")
       => \A cands \in {Candidates(frame_in', wheel_center', wheel_radius')} :
             cands # <<>>
             => /\ \E i \in 1..Len(cands) : ret' = PosOf(cands[i])
                /\ last_ball_position' = ret'
                /\ ball_history' = LastN(Append(ball_history, ret'), 15)]_vars

\* a ball returned although every candidate of the frame is far from the
\* ball seen before
C28_Witness ==
    /\ op = "detect_ball"
    /\ ret # None
    /\ Len(ball_history) >= 2
    /\ \A cands \in {Candidates(frame_in, wheel_center, wheel_radius)} :
          /\ Len(cands) >= 2
          /\ \A i \in 1..Len(cands) :
                FarFrom(PosOf(cands[i]), ball_history[Len(ball_history) - 1],
                        wheel_radius)

(***************************************************************************)
(* Claims about the radial velocity                                        *)
(***************************************************************************)

\* (last radius - first radius) / ((n - 1) * dt), computed in floats
EndToEnd(pos, interval) ==
    FDiv(FSub(pos[Len(pos)][2], pos[1][2]), FMul(FromInt(Len(pos) - 1), interval))

\* C29 as claimed: for at least 2 positions and dt # 0 the radial velocity
\* equals (last radius - first radius) / ((n - 1) * dt), so that it depends
\* on the first and the last position only.
C29_EndToEnd ==
    (radial_velocity # Pending /\ Len(positions) >= 2 /\ time_interval # Zero)
    => radial_velocity = EndToEnd(positions, time_interval)

\* the greatest exponent of the radii of a non-empty list of positions
MaxExponent(pos) ==
    CHOOSE e \in {pos[i][2].e : i \in 1..Len(pos)} :
        \A i \in 1..Len(pos) : pos[i][2].e <= e

\* m * 2^e in units of 2^E, rounded down
ScaleTo(m, e, E) == IF e >= E THEN m * Pow2(e - E) ELSE m \div Pow2(E - e)

\* |v * (n - 1) * dt - (last - first)| is at most 8 units in the last place
\* of the largest radius, whose exponent is top; computed in units of 2^E
WithinRounding(v, pos, interval, top, E) ==
    Abs(ScaleTo(v.m * interval.m * (Len(pos) - 1), v.e + interval.e, E)
        - (ScaleTo(pos[Len(pos)][2].m, pos[Len(pos)][2].e, E)
           - ScaleTo(pos[1][2].m, pos[1][2].e, E)))
    <= 8 * Pow2(top - E)

\* C29 amended: for at least 2 positions of positive radius and dt > 0 the
\* radial velocity is (last radius - first radius) / ((n - 1) * dt) up to
\* the rounding of the float operations; the positions in between change it
\* by no more than that rounding.
C29_EndToEndUpToRounding ==
    (radial_velocity # Pending /\ Len(positions) >= 2 /\ time_interval # Zero)
    => \A top \in {MaxExponent(positions)} :
          WithinRounding(radial_velocity, positions, time_interval, top,
                         top - 2 * MantBits)

\* a radial velocity for three positions that is not the float quotient of
\* the end-to-end difference
C29_Witness ==
    /\ radial_velocity # Pending
    /\ Len(positions) = 3
    /\ positions[2][2] # positions[1][2]
    /\ positions[2][2] # positions[3][2]
    /\ radial_velocity # EndToEnd(positions, time_interval)

(***************************************************************************)
(* Claims about the wheel layout                                           *)
(***************************************************************************)

\* C30: the wheel layout has 37 entries, holds every pocket number 0..36
\* exactly once and 0 first, and no operation modifies it; the number
\* predicted for a segment is the layout's entry for it, so that every
\* pocket number is the prediction of exactly one segment.
C30_LayoutIsPermutation ==
    /\ [](/\ Len(wheel_layout) = 37
          /\ wheel_layout[1] = 0
          /\ \A n \in 0..36 : Cardinality({i \in 1..37 : wheel_layout[i] = n}) = 1
          /\ (landing # Pending /\ trajectory # <<>>)
             => /\ landing.predicted_number = wheel_layout[landing.segment_index + 1]
                /\ \A i \in 0..36 :
                      wheel_layout[i + 1] = landing.predicted_number
                      => i = landing.segment_index)
    /\ [][wheel_layout' = wheel_layout]_vars

\* a prediction that is not pocket 0, looked up in the layout
C30_Witness ==
    /\ landing # Pending
    /\ trajectory # <<>>
    /\ landing.segment_index > 0
    /\ landing.predicted_number # landing.segment_index
    /\ landing.predicted_number = wheel_layout[landing.segment_index + 1]

====
